---------------------------- MODULE Spec2Model ----------------------------
(***************************************************************************)
(* Model of src/Assignment3/q2.py: the mini-batch sampler, the gradient    *)
(* descent optimizer with momentum, the linear SVM and the training loop   *)
(* optimize_svm.                                                           *)
(*                                                                         *)
(* Numbers.  The program computes in IEEE double precision.  The model     *)
(* computes in exact rational arithmetic, a rational being the normalised  *)
(* pair <<numerator, denominator>>.  The inputs the model enumerates are   *)
(* dyadic rationals of small magnitude, on which double addition and       *)
(* multiplication are exact; the quotient c / n of SVM.grad is exact in    *)
(* the model and rounded in the program when n is not a power of two.      *)
(*                                                                         *)
(* Arrays.  A numpy array (or a Python float, which numpy treats as a 0-d  *)
(* array when broadcasting) is the record [nd, v]: nd = 0 for a scalar,    *)
(* nd = 1 for a vector, and v the sequence of its elements.  A 2-d array   *)
(* is a sequence of rows.  Indices are 0-based as in the source; the       *)
(* sequences that hold the arrays are 1-based.                             *)
(***************************************************************************)
EXTENDS Integers, Sequences, FiniteSets, TLC

VARIABLES
    optimizer,      \* GDOptimizer instance: [lr, beta, vel]
    svm,            \* SVM instance: [c, w]
    batch_sampler,  \* BatchSampler instance: [data, targets, batch_size]
    rng,            \* numpy's process-wide random source: [tape, pos]
    call,           \* the last method call made by a caller of the classes
    grads,          \* the gradients passed to update_params so far
    frame           \* the activation of optimize_svm: pc, locals, step counts

vars == <<optimizer, svm, batch_sampler, rng, call, grads, frame>>

---------------------------------------------------------------------------
(* Bounds of the model. *)

MaxCalls == 5       \* calls of update_params in one behaviour
MaxRows == 3        \* rows of an input matrix handed to the SVM
MaxIters == 2       \* largest iteration count handed to optimize_svm
TapeLen == 2        \* period of the random source

---------------------------------------------------------------------------
(* Exact arithmetic standing for the program's float arithmetic. *)

Abs(n) == IF n < 0 THEN -n ELSE n

(* The arithmetic is defined on evaluated arguments: each operator hands
   its operands, as one tuple, to a function. *)
GCDOf[p \in Nat \X Nat] ==
    IF p[2] = 0 THEN p[1] ELSE GCDOf[<<p[2], p[1] % p[2]>>]

GCD(a, b) == GCDOf[<<a, b>>]

RatOf[p \in Int \X Int] ==
    IF p[2] < 0
    THEN <<(-p[1]) \div GCD(Abs(p[1]), Abs(p[2])),
           (-p[2]) \div GCD(Abs(p[1]), Abs(p[2]))>>
    ELSE <<p[1] \div GCD(Abs(p[1]), Abs(p[2])),
           p[2] \div GCD(Abs(p[1]), Abs(p[2]))>>

Rat(n, d) == RatOf[<<n, d>>]

Zero == Rat(0, 1)
One == Rat(1, 1)

RAddOf[p \in (Int \X Int) \X (Int \X Int)] ==
    Rat(p[1][1] * p[2][2] + p[2][1] * p[1][2], p[1][2] * p[2][2])
RSubOf[p \in (Int \X Int) \X (Int \X Int)] ==
    Rat(p[1][1] * p[2][2] - p[2][1] * p[1][2], p[1][2] * p[2][2])
RMulOf[p \in (Int \X Int) \X (Int \X Int)] ==
    Rat(p[1][1] * p[2][1], p[1][2] * p[2][2])
RLessOf[p \in (Int \X Int) \X (Int \X Int)] ==
    p[1][1] * p[2][2] < p[2][1] * p[1][2]

RAdd(a, b) == RAddOf[<<a, b>>]
RSub(a, b) == RSubOf[<<a, b>>]
RMul(a, b) == RMulOf[<<a, b>>]
RLess(a, b) == RLessOf[<<a, b>>]
RGeq(a, b) == ~RLess(a, b)

(* Python's max(a, b): b only when it is strictly greater than a. *)
PyMax(a, b) == IF RLess(a, b) THEN b ELSE a

(* numpy arrays of dimension 0 and 1, with broadcasting. *)
Scalar(r) == [nd |-> 0, v |-> <<r>>]
Vector(s) == [nd |-> 1, v |-> s]

Broadcastable(a, b) == Len(a.v) = 1 \/ Len(b.v) = 1 \/ Len(a.v) = Len(b.v)

Elem(a, i) == IF Len(a.v) = 1 THEN a.v[1] ELSE a.v[i]

BroadcastLen(a, b) == IF Len(a.v) = 1 THEN Len(b.v) ELSE Len(a.v)
BroadcastDim(a, b) == IF a.nd > b.nd THEN a.nd ELSE b.nd

RatSeqs == Seq(Int \X Int)
Arrays == [nd : {0, 1}, v : RatSeqs]

ArrAddOf[p \in Arrays \X Arrays] ==
    [nd |-> BroadcastDim(p[1], p[2]),
     v |-> [i \in 1..BroadcastLen(p[1], p[2]) |->
               RAdd(Elem(p[1], i), Elem(p[2], i))]]
ArrSubOf[p \in Arrays \X Arrays] ==
    [nd |-> BroadcastDim(p[1], p[2]),
     v |-> [i \in 1..BroadcastLen(p[1], p[2]) |->
               RSub(Elem(p[1], i), Elem(p[2], i))]]
ArrMulOf[p \in Arrays \X Arrays] ==
    [nd |-> BroadcastDim(p[1], p[2]),
     v |-> [i \in 1..BroadcastLen(p[1], p[2]) |->
               RMul(Elem(p[1], i), Elem(p[2], i))]]

ArrAdd(a, b) == ArrAddOf[<<a, b>>]
ArrSub(a, b) == ArrSubOf[<<a, b>>]
ArrMul(a, b) == ArrMulOf[<<a, b>>]


DotOf[p \in RatSeqs \X RatSeqs] ==
    IF Len(p[1]) = 0 THEN Zero
    ELSE RAdd(RMul(p[1][1], p[2][1]), DotOf[<<Tail(p[1]), Tail(p[2])>>])

(* The dot product of two sequences of one length. *)
Dot(u, x) == DotOf[<<u, x>>]

---------------------------------------------------------------------------
(* GDOptimizer *)

GDOptimizerInit(lr, beta) == [lr |-> lr, beta |-> beta, vel |-> Scalar(Zero)]

(* The velocity without the accumulated term: plain gradient descent. *)
NewVelReset(opt, grad) == ArrMul(Scalar(opt.lr), grad)

(* self.vel = self.beta * self.vel + self.lr * grad *)
NewVel(opt, grad) ==
    ArrAdd(ArrMul(Scalar(opt.beta), opt.vel), ArrMul(Scalar(opt.lr), grad))

(* The return value computed with the velocity of before the call. *)
UpdatedParamsOldVel(opt, params, grad) == ArrSub(params, opt.vel)

(* return params - self.vel, self.vel being the velocity just stored *)
UpdatedParams(opt, params, grad) == ArrSub(params, NewVel(opt, grad))

(* What the caller's params object holds after the call: the subtraction
   allocates its result, the argument is left as it was. *)
ParamsAfterCall(opt, params, grad) == params

VelRaises(opt, grad) == ~Broadcastable(opt.vel, grad)
SubRaises(opt, params, grad) == ~Broadcastable(params, NewVel(opt, grad))


(* A variable of an object the specification at hand does not construct. *)
None == "None"

NoCall == [op |-> "none", raised |-> FALSE]

(* Inputs a caller hands to update_params. *)
LRs == {Rat(1, 2), One}
Betas == {Zero, Rat(1, 2)}
ParamInputs ==
    {Scalar(Rat(10, 1)), Vector(<<One, Rat(-1, 1)>>)}
GradInputs ==
    {Scalar(Zero), Scalar(One), Scalar(Rat(-3, 2)),
     Vector(<<One, Rat(-2, 1)>>), Vector(<<Rat(1, 2), Rat(3, 1)>>),
     Vector(<<One, One, One>>)}

InitOpt ==
    /\ optimizer \in {GDOptimizerInit(lr, beta) : lr \in LRs, beta \in Betas}
    /\ svm = None
    /\ batch_sampler = None
    /\ rng = None
    /\ call = NoCall
    /\ grads = <<>>
    /\ frame = None

(* optimizer.update_params(params, grad), called by any caller.  A shape
   that cannot be broadcast raises ValueError: at line 64 before the
   velocity is stored, at line 65 after it. *)
UpdateParams(params, grad) ==
    /\ Len(grads) < MaxCalls
    /\ IF VelRaises(optimizer, grad)
       THEN /\ call' = [op |-> "update_params", raised |-> TRUE,
                        params |-> params, grad |-> grad,
                        vel_before |-> optimizer.vel,
                        params_after |-> params]
            /\ UNCHANGED <<optimizer, grads>>
       ELSE /\ optimizer' = [optimizer EXCEPT !.vel = NewVel(optimizer, grad)]
            /\ grads' = Append(grads, grad)
            /\ IF SubRaises(optimizer, params, grad)
               THEN call' = [op |-> "update_params", raised |-> TRUE,
                             params |-> params, grad |-> grad,
                             vel_before |-> optimizer.vel,
                             params_after |-> params]
               ELSE call' = [op |-> "update_params", raised |-> FALSE,
                             params |-> params, grad |-> grad,
                             vel_before |-> optimizer.vel,
                             params_after |->
                                 ParamsAfterCall(optimizer, params, grad),
                             ret |-> UpdatedParams(optimizer, params, grad)]
    /\ UNCHANGED <<svm, batch_sampler, rng, frame>>

NextOpt == \E params \in ParamInputs, grad \in GradInputs :
               UpdateParams(params, grad)

SpecOpt == InitOpt /\ [][NextOpt]_vars

---------------------------------------------------------------------------
(* Claims about GDOptimizer, checked under SpecOpt. *)

SameShape(a, b) == a.nd = b.nd /\ Len(a.v) = Len(b.v)

UpdateReturned == call.op = "update_params" /\ ~call.raised

(* params and grad have one shape, and the velocity is the initial scalar
   or has that shape too. *)
CompatibleCall ==
    /\ SameShape(call.params, call.grad)
    /\ call.vel_before.nd = 0 \/ SameShape(call.vel_before, call.grad)

(* C1: for params p and gradient g of the same shape, on an optimizer whose
   velocity v is a scalar or has that shape, update_params(p, g) stores the velocity v' = beta*v + lr*g, v being the velocity before the
   call, returns p - v' computed with the new velocity, and leaves the
   argument p as it was. *)
C1_UpdateParams ==
    (UpdateReturned /\ CompatibleCall) =>
        LET p == call.params
            g == call.grad
            v == call.vel_before
            n == Len(g.v)
        IN  /\ optimizer.vel.nd = g.nd
            /\ Len(optimizer.vel.v) = n
            /\ \A i \in 1..n :
                   optimizer.vel.v[i] =
                       RAdd(RMul(optimizer.beta, Elem(v, i)),
                            RMul(optimizer.lr, g.v[i]))
            /\ call.ret.nd = p.nd
            /\ Len(call.ret.v) = n
            /\ \A i \in 1..n :
                   call.ret.v[i] = RSub(p.v[i], optimizer.vel.v[i])
            /\ call.params_after = p

(* A call that returned, made with a nonzero gradient on an optimizer whose
   velocity was already nonzero and whose beta is nonzero: the new velocity
   differs from the old one. *)
C1_Witness ==
    /\ UpdateReturned
    /\ CompatibleCall
    /\ call.grad.nd = 1
    /\ call.vel_before.nd = 1
    /\ optimizer.beta # Zero
    /\ optimizer.vel # call.vel_before
    /\ call.ret # call.params

RECURSIVE GeoSum(_, _)
(* 1 + beta + beta^2 + ... + beta^(k-1) *)
GeoSum(beta, k) ==
    IF k = 0 THEN Zero ELSE RAdd(One, RMul(beta, GeoSum(beta, k - 1)))

ConstantGrads == Len(grads) >= 1 /\ \A j \in 1..Len(grads) : grads[j] = grads[1]

(* C2: on a fresh optimizer, after k >= 1 successive update_params calls
   that all receive the same gradient g, the stored velocity is
   lr*g*(1 + beta + ... + beta^(k-1)). *)
C2_MomentumClosedForm ==
    ConstantGrads =>
        LET g == grads[1]
            k == Len(grads)
        IN  /\ optimizer.vel.nd = g.nd
            /\ Len(optimizer.vel.v) = Len(g.v)
            /\ \A i \in 1..Len(g.v) :
                   optimizer.vel.v[i] =
                       RMul(RMul(optimizer.lr, g.v[i]),
                            GeoSum(optimizer.beta, k))

(* Five calls with the same nonzero gradient and a nonzero beta. *)
C2_Witness ==
    /\ ConstantGrads
    /\ Len(grads) = 5
    /\ optimizer.beta # Zero
    /\ \E i \in 1..Len(grads[1].v) : grads[1].v[i] # Zero

---------------------------------------------------------------------------
(* SVM *)

(* Python's a / n for a float a and an int n; n = 0 raises
   ZeroDivisionError and is never evaluated here. *)
RDivInt(a, n) == Rat(a[1], a[2] * n)

(* np.linalg.multi_dot([w.T, x]) and np.dot(w.T, x) raise ValueError when
   the lengths differ. *)
DotRaises(w, X) == \E i \in 1..Len(X) : Len(X[i]) # Len(w.v)

(* The loss of one row without the clamp at 0. *)
RowLossUnclamped(w, x, yi) == RSub(One, RMul(yi, Dot(w.v, x)))

(* The loss of one row: max(1 - y_i * (w . X_i), 0) *)
RowLoss(w, x, yi) == PyMax(RSub(One, RMul(yi, Dot(w.v, x))), Zero)

(* SVM.hinge_loss: the Python list of the rows' losses *)
hinge_loss(w, X, y) == [i \in 1..Len(X) |-> RowLoss(w, X[i], y[i])]

(* A row of hinge_loss_grads that counts every row, whatever its loss. *)
LossGradRowAlways(loss, x0, x, yi) == [j \in 1..Len(x) |-> RMul(yi, x[j])]

(* One row of hinge_loss_grads: np.zeros(X[0].shape) if loss == 0, else
   np.dot(y[i], X[i]) *)
LossGradRow(loss, x0, x, yi) ==
    IF loss = Zero THEN [j \in 1..Len(x0) |-> Zero]
    ELSE [j \in 1..Len(x) |-> RMul(yi, x[j])]

hinge_loss_grads(w, X, y) ==
    [i \in 1..Len(X) |-> LossGradRow(hinge_loss(w, X, y)[i], X[1], X[i], y[i])]

SumAxis0Of[p \in Seq(RatSeqs) \X Nat] ==
    IF Len(p[1]) = 0 THEN Zero
    ELSE RAdd(p[1][1][p[2]], SumAxis0Of[<<Tail(p[1]), p[2]>>])

(* np.sum(rows, axis=0) of a non-empty 2-d array: the j-th column's sum *)
SumAxis0(rows, j) == SumAxis0Of[<<rows, j>>]

GradRaises(svmobj, X) == DotRaises(svmobj.w, X) \/ Len(X) = 0

(* SVM.grad: self.w - (self.c / len(X)) * np.sum(hinge_loss_grads, axis=0) *)
grad(svmobj, X, y) ==
    LET rows == hinge_loss_grads(svmobj.w, X, y)
        scale == RDivInt(svmobj.c, Len(X))
        total == Vector([j \in 1..Len(X[1]) |-> SumAxis0(rows, j)])
    IN  ArrSub(svmobj.w, ArrMul(Scalar(scale), total))

(* A label that resolves the tie w.x = 0 to -1. *)
ClassifyRowStrict(w, x) == IF RLess(Zero, Dot(w.v, x)) THEN 1 ELSE -1

(* One label of SVM.classify: 1 if np.dot(w.T, x) >= 0 else -1 *)
ClassifyRow(w, x) == IF RGeq(Dot(w.v, x), Zero) THEN 1 ELSE -1

classify(w, X) == [i \in 1..Len(X) |-> ClassifyRow(w, X[i])]

(* Inputs: weight vectors and penalties an SVM may hold, rows and labels a
   caller may pass.  Rows of length 3 do not fit the weights. *)
Weights ==
    {Vector(<<One, Zero>>), Vector(<<Zero, Zero>>),
     Vector(<<Rat(1, 2), Rat(-1, 1)>>), Vector(<<Rat(-1, 4), Rat(1, 2)>>)}
Penalties == {One, Rat(2, 1)}
Rows ==
    {<<One, Zero>>, <<Zero, One>>, <<Rat(2, 1), Rat(-1, 1)>>,
     <<Rat(-1, 1), Rat(1, 2)>>, <<Rat(3, 1), Rat(1, 1)>>}
LongRows == {<<One, One, One>>}
Labels == {One, Rat(-1, 1)}

Matrices(n) == [1..n -> Rows] \cup [1..n -> LongRows]

(* The SVM under test, and the arguments of the method call to come. *)
InitSVM ==
    /\ svm \in {[c |-> c, w |-> w] : c \in Penalties, w \in Weights}
    /\ optimizer = None
    /\ batch_sampler = None
    /\ rng = None
    /\ \E n \in 0..MaxRows : \E X \in Matrices(n), y \in [1..n -> Labels] :
           call = [op |-> "pending", raised |-> FALSE, X |-> X, y |-> y]
    /\ grads = <<>>
    /\ frame = None

HingeLoss ==
    /\ call.op = "pending"
    /\ call' = IF DotRaises(svm.w, call.X)
               THEN [call EXCEPT !.op = "hinge_loss", !.raised = TRUE]
               ELSE [op |-> "hinge_loss", raised |-> FALSE,
                     X |-> call.X, y |-> call.y, w_before |-> svm.w,
                     ret |-> hinge_loss(svm.w, call.X, call.y)]
    /\ UNCHANGED <<optimizer, svm, batch_sampler, rng, grads, frame>>

Grad ==
    /\ call.op = "pending"
    /\ call' = IF GradRaises(svm, call.X)
               THEN [call EXCEPT !.op = "grad", !.raised = TRUE]
               ELSE [op |-> "grad", raised |-> FALSE,
                     X |-> call.X, y |-> call.y, w_before |-> svm.w,
                     ret |-> grad(svm, call.X, call.y)]
    /\ UNCHANGED <<optimizer, svm, batch_sampler, rng, grads, frame>>

Classify ==
    /\ call.op = "pending"
    /\ call' = IF DotRaises(svm.w, call.X)
               THEN [call EXCEPT !.op = "classify", !.raised = TRUE]
               ELSE [op |-> "classify", raised |-> FALSE,
                     X |-> call.X, y |-> call.y, w_before |-> svm.w,
                     ret |-> classify(svm.w, call.X)]
    /\ UNCHANGED <<optimizer, svm, batch_sampler, rng, grads, frame>>

NextSVM == HingeLoss \/ Grad \/ Classify

SpecSVM == InitSVM /\ [][NextSVM]_vars

---------------------------------------------------------------------------
(* Claims about SVM, checked under SpecSVM. *)

(* y_i * (w . X_i) for row i of the call's input, w being the weights *)
Margin(i) == RMul(call.y[i], Dot(svm.w.v, call.X[i]))

RECURSIVE SumTo(_, _)
SumTo(f, n) == IF n = 0 THEN Zero ELSE RAdd(SumTo(f, n - 1), f[n])

(* The j-th component of row i's contribution to the sub-gradient: zero on
   the flat part of the hinge, the kink included, and y_i * X_i[j] else. *)
Contribution(i, j) ==
    IF RGeq(Margin(i), One) THEN Zero ELSE RMul(call.y[i], call.X[i][j])

(* C3: for a batch of n >= 1 rows grad returns
   w - (c/n) * sum_i contribution_i, a vector as long as w, and leaves w as
   it was. *)
C3_Grad ==
    (call.op = "grad" /\ ~call.raised) =>
        LET n == Len(call.X)
            m == Len(svm.w.v)
        IN  /\ n >= 1
            /\ call.ret.nd = 1
            /\ Len(call.ret.v) = m
            /\ \A j \in 1..m :
                   call.ret.v[j] =
                       RSub(svm.w.v[j],
                            RMul(Rat(svm.c[1], svm.c[2] * n),
                                 SumTo([i \in 1..n |-> Contribution(i, j)], n)))
            /\ svm.w = call.w_before

(* A gradient over three rows, one of them on the kink and one of
   them inside the margin. *)
C3_Witness ==
    /\ call.op = "grad"
    /\ ~call.raised
    /\ Len(call.X) >= 3
    /\ \E i \in 1..Len(call.X) : Margin(i) = One
    /\ \E i \in 1..Len(call.X) : RLess(Margin(i), One)
    /\ call.ret # svm.w

(* C4: hinge_loss returns one entry per row, 0 where y_i*(w.X_i) >= 1 and
   1 - y_i*(w.X_i) elsewhere, so no entry is negative. *)
C4_HingeLoss ==
    (call.op = "hinge_loss" /\ ~call.raised) =>
        /\ Len(call.ret) = Len(call.X)
        /\ \A i \in 1..Len(call.X) :
               /\ RGeq(Margin(i), One) => call.ret[i] = Zero
               /\ RLess(Margin(i), One) =>
                      call.ret[i] = RSub(One, Margin(i))
               /\ RGeq(call.ret[i], Zero)

(* Losses of rows with a margin above 1, of exactly 1 and below 1. *)
C4_Witness ==
    /\ call.op = "hinge_loss"
    /\ ~call.raised
    /\ \E i \in 1..Len(call.X) : RLess(One, Margin(i))
    /\ \E i \in 1..Len(call.X) : RLess(Margin(i), One) /\ call.ret[i] # Zero

(* C5: classify returns one label per row, +1 exactly when w.x >= 0 and -1
   otherwise, so a row with w.x = 0 is labelled +1. *)
C5_Classify ==
    (call.op = "classify" /\ ~call.raised) =>
        /\ Len(call.ret) = Len(call.X)
        /\ \A i \in 1..Len(call.X) :
               LET d == Dot(svm.w.v, call.X[i])
               IN  /\ call.ret[i] \in {1, -1}
                   /\ call.ret[i] = 1 <=> (d[1] >= 0)
                   /\ d = Zero => call.ret[i] = 1

(* Labels of a row with w.x = 0, w being nonzero, and of a row with
   w.x < 0. *)
C5_Witness ==
    /\ call.op = "classify"
    /\ ~call.raised
    /\ svm.w # Vector(<<Zero, Zero>>)
    /\ \E i \in 1..Len(call.X) :
           Dot(svm.w.v, call.X[i]) = Zero /\ call.ret[i] = 1
    /\ \E i \in 1..Len(call.X) : call.ret[i] = -1

---------------------------------------------------------------------------
(* numpy's random source.  np.random.seed fixes the stream of raw words the
   generator will produce; the stream is the tape, of period TapeLen, and
   pos is the number of words consumed so far, modulo the period.  Each
   library call consumes one word and derives its result from it. *)

RECURSIVE Factorial(_)
Factorial(n) == IF n <= 0 THEN 1 ELSE n * Factorial(n - 1)

Words(n) == 0..(Factorial(n) - 1)

Word(r) == r.tape[r.pos + 1]

Advance(r) == [r EXCEPT !.pos = (r.pos + 1) % Len(r.tape)]

(* A seeding that leaves the stream where it is. *)
SeedIgnored(r) == r

(* np.random.seed(...): the stream starts over *)
Seed(r) == [r EXCEPT !.pos = 0]

(* np.arange(n) *)
arange(n) == [i \in 1..n |-> i - 1]

RemoveAt(seq, k) == [i \in 1..(Len(seq) - 1) |-> IF i < k THEN seq[i] ELSE seq[i + 1]]

(* The place in the pool of n entries that the word k selects first. *)
Pick(k, n) == (k \div Factorial(n - 1)) % n

PermOfAt[p \in Nat \X Seq(Nat)] ==
    IF Len(p[2]) = 0 THEN <<>>
    ELSE <<p[2][Pick(p[1], Len(p[2])) + 1]>> \o
         PermOfAt[<<p[1] % Factorial(Len(p[2]) - 1),
                    RemoveAt(p[2], Pick(p[1], Len(p[2])) + 1)>>]

(* The permutation of pool that the word k selects (its Lehmer code). *)
PermOf(k, pool) == PermOfAt[<<k, pool>>]

(* seq[:size] *)
Slice(seq, size) == SubSeq(seq, 1, IF size < Len(seq) THEN size ELSE Len(seq))

(* A sampler that never refuses a size. *)
ChoiceNeverRaises(a, size) == FALSE

(* np.random.choice(a, size, replace=False) raises ValueError when size
   exceeds the population, before it draws. *)
ChoiceRaises(a, size) == size > Len(a)

(* A draw with replacement: size entries of a, each picked on its own. *)
ChoiceWithReplacement(r, a, size) ==
    [k \in 1..size |-> a[((Word(r) \div k) % Len(a)) + 1]]

(* np.random.choice(a, size, replace=False): the first size entries of a
   random permutation of a *)
Choice(r, a, size) == Slice(PermOf(Word(r), a), size)

(* np.random.normal(0.0, 0.1, n): n small values derived from the word *)
NormalValues == <<Rat(1, 8), Rat(-1, 16), Rat(-1, 8), Zero, Rat(1, 4), Rat(1, 16)>>
Normal(r, n) ==
    Vector([j \in 1..n |-> NormalValues[((Word(r) + 2 * (j - 1)) % Len(NormalValues)) + 1]])

---------------------------------------------------------------------------
(* BatchSampler *)

BatchSamplerInit(data, targets, batch_size) ==
    [num_points |-> Len(data),
     features |-> Len(data[1]),
     batch_size |-> batch_size,
     data |-> data,
     targets |-> targets,
     indices |-> arange(Len(data))]

(* The size random_batch_indices asks np.random.choice for. *)
BatchSize(bs, omitted, m) == IF omitted THEN bs.batch_size ELSE m

(* The first rows of the dataset, whatever the indices. *)
TakeFirst(seq, indices) == SubSeq(seq, 1, Len(indices))

(* np.take(data, indices, 0), and targets[indices] *)
Take(seq, indices) == [k \in 1..Len(indices) |-> seq[indices[k] + 1]]

(* Datasets a sampler is built over: rows of two features, labels +1, -1. *)
Datasets ==
    {[data |-> <<<<Rat(2, 1), Zero>>, <<Rat(-2, 1), One>>, <<One, One>>>>,
      targets |-> <<One, Rat(-1, 1), One>>],
     [data |-> <<<<One, Rat(1, 2)>>, <<Rat(-1, 1), Zero>>>>,
      targets |-> <<One, Rat(-1, 1)>>]}

InitSampler ==
    /\ \E d \in Datasets : \E b \in 0..(Len(d.data) + 1) :
           /\ batch_sampler = BatchSamplerInit(d.data, d.targets, b)
           /\ \E tape \in [1..TapeLen -> Words(Len(d.data))] :
                  rng = [tape |-> tape, pos |-> 0]
    /\ optimizer = None
    /\ svm = None
    /\ call = [op |-> "none", raised |-> FALSE, indices |-> <<>>]
    /\ grads = <<>>
    /\ frame = None

(* The indices one call of random_batch_indices samples. *)
SampledIndices(bs, r, omitted, m) ==
    Choice(r, bs.indices, BatchSize(bs, omitted, m))

SamplingRaises(bs, omitted, m) ==
    ChoiceRaises(bs.indices, BatchSize(bs, omitted, m))

(* batch_sampler.random_batch_indices(m), m omitted or given; prev is the
   index sequence the call before this one returned. *)
RandomBatchIndices(omitted, m) ==
    /\ IF SamplingRaises(batch_sampler, omitted, m)
       THEN /\ call' = [op |-> "random_batch_indices", raised |-> TRUE,
                        omitted |-> omitted, m |-> m,
                        indices |-> <<>>, prev |-> call.indices]
            /\ rng' = rng
       ELSE /\ call' = [op |-> "random_batch_indices", raised |-> FALSE,
                        omitted |-> omitted, m |-> m,
                        indices |->
                            SampledIndices(batch_sampler, rng, omitted, m),
                        prev |-> call.indices]
            /\ rng' = Advance(rng)
    /\ UNCHANGED <<optimizer, svm, batch_sampler, grads, frame>>

(* batch_sampler.get_batch(m) *)
GetBatch(omitted, m) ==
    /\ IF SamplingRaises(batch_sampler, omitted, m)
       THEN /\ call' = [op |-> "get_batch", raised |-> TRUE,
                        omitted |-> omitted, m |-> m,
                        indices |-> <<>>, prev |-> call.indices]
            /\ rng' = rng
       ELSE /\ call' = [op |-> "get_batch", raised |-> FALSE,
                        omitted |-> omitted, m |-> m,
                        indices |->
                            SampledIndices(batch_sampler, rng, omitted, m),
                        prev |-> call.indices,
                        X_batch |->
                            Take(batch_sampler.data,
                                 SampledIndices(batch_sampler, rng, omitted, m)),
                        y_batch |->
                            Take(batch_sampler.targets,
                                 SampledIndices(batch_sampler, rng, omitted, m))]
            /\ rng' = Advance(rng)
    /\ UNCHANGED <<optimizer, svm, batch_sampler, grads, frame>>

(* The argument m: omitted, or a size up to one more than the dataset's. *)
SizeArgs(bs) ==
    {[omitted |-> TRUE, m |-> 0]} \cup
    {[omitted |-> FALSE, m |-> m] : m \in 0..(bs.num_points + 1)}

NextSampler ==
    \/ \E a \in SizeArgs(batch_sampler) : RandomBatchIndices(a.omitted, a.m)
    \/ \E a \in SizeArgs(batch_sampler) : GetBatch(a.omitted, a.m)

SpecSampler == InitSampler /\ [][NextSampler]_vars

---------------------------------------------------------------------------
(* Claims about BatchSampler, checked under SpecSampler. *)

SamplerCalled == call.op \in {"random_batch_indices", "get_batch"}

(* The size the call asked for: m, or the default batch size. *)
Requested == IF call.omitted THEN batch_sampler.batch_size ELSE call.m

Distinct(seq) == \A i, j \in 1..Len(seq) : i # j => seq[i] # seq[j]

(* C6: a call that asks for m <= N indices, m given or defaulting to the
   batch size, returns exactly m pairwise distinct indices, each in
   [0, N); the sampler itself is the same after every call. *)
C6_BatchIndices ==
    /\ (SamplerCalled /\ Requested <= batch_sampler.num_points) =>
           /\ ~call.raised
           /\ Len(call.indices) = Requested
           /\ Distinct(call.indices)
           /\ \A k \in 1..Len(call.indices) :
                  call.indices[k] \in 0..(batch_sampler.num_points - 1)
    /\ batch_sampler =
           BatchSamplerInit(batch_sampler.data, batch_sampler.targets,
                            batch_sampler.batch_size)

(* A call with m omitted that returns batch_size >= 2 indices, one of which
   the call before it had returned too. *)
C6_Witness ==
    /\ call.op = "random_batch_indices"
    /\ ~call.raised
    /\ call.omitted
    /\ Len(call.indices) >= 2
    /\ Len(call.indices) < batch_sampler.num_points
    /\ \E i \in 1..Len(call.indices), j \in 1..Len(call.prev) :
           call.indices[i] = call.prev[j]

(* C7: get_batch(m) with m <= N returns, at each position k, the feature
   row data[idx_k] and the label targets[idx_k] of the k-th sampled index. *)
C7_GetBatch ==
    (call.op = "get_batch" /\ Requested <= batch_sampler.num_points) =>
        /\ ~call.raised
        /\ Len(call.X_batch) = Requested
        /\ Len(call.y_batch) = Requested
        /\ \A k \in 1..Requested :
               /\ call.X_batch[k] = batch_sampler.data[call.indices[k] + 1]
               /\ call.y_batch[k] = batch_sampler.targets[call.indices[k] + 1]

(* A batch of two or more rows whose indices are not in dataset order. *)
C7_Witness ==
    /\ call.op = "get_batch"
    /\ ~call.raised
    /\ Len(call.indices) >= 2
    /\ call.indices[1] > call.indices[2]
    /\ call.X_batch[1] # batch_sampler.data[1]

---------------------------------------------------------------------------
(* optimize_svm(train_data, train_targets, penalty, optimizer, batchsize,
   iters), called as train_svm calls it: with a freshly constructed
   optimizer and a Python float penalty.  frame holds the arguments, the
   position pc, the locals, the number it of completed iterations and, for
   each statement of the loop body, how many times it has run. *)

(* The locals svm and batch_sampler before lines 163-164 bind them. *)
Unbound ==
    [svm |-> [c |-> Zero, w |-> Vector(<<>>)],
     batch_sampler |-> [num_points |-> 0, features |-> 0, batch_size |-> 0,
                        data |-> <<>>, targets |-> <<>>, indices |-> <<>>]]

TrainLRs == {Rat(1, 2), One}
TrainPenalties == {One}

NewFrame(d, penalty, batchsize, iters, run, first) ==
    [pc |-> "start",
     train_data |-> d.data, train_targets |-> d.targets,
     penalty |-> penalty, batchsize |-> batchsize, iters |-> iters,
     it |-> 0,
     X_batch |-> <<>>, y_batch |-> <<>>,
     gradient |-> <<>>, updated |-> <<>>,
     w0 |-> <<>>,
     draws |-> 0, grad_calls |-> 0, updates |-> 0, assigns |-> 0,
     run |-> run, first |-> first]

InitTrain ==
    /\ \E d \in Datasets :
           /\ \E tape \in [1..TapeLen -> Words(Len(d.data))] :
                  rng = Seed([tape |-> tape, pos |-> 0])
           /\ \E penalty \in TrainPenalties, iters \in 0..MaxIters,
                 batchsize \in 0..(Len(d.data) + 1) :
                  frame = NewFrame(d, penalty, batchsize, iters, 1, <<>>)
    /\ optimizer \in {GDOptimizerInit(lr, beta) : lr \in TrainLRs, beta \in Betas}
    /\ svm = Unbound.svm
    /\ batch_sampler = Unbound.batch_sampler
    /\ call = NoCall
    /\ grads = <<>>

(* A loop that stops one iteration short. *)
LoopStopsEarly(it, iters) == it + 1 < iters

(* for _ in range(iters): whether another iteration starts *)
LoopContinues(it, iters) == it < iters

(* Lines 163-164: the sampler and the SVM are constructed; the SVM draws
   its weights from the random source. *)
Construct ==
    /\ frame.pc = "start"
    /\ batch_sampler' = BatchSamplerInit(frame.train_data, frame.train_targets,
                                         frame.batchsize)
    /\ svm' = [c |-> frame.penalty,
               w |-> Normal(rng, Len(frame.train_data[1]))]
    /\ rng' = Advance(rng)
    /\ frame' = [frame EXCEPT !.pc = "loop",
                              !.w0 = <<Normal(rng, Len(frame.train_data[1]))>>]
    /\ UNCHANGED <<optimizer, call, grads>>

(* Line 166: X_batch, y_batch = batch_sampler.get_batch(); a ValueError
   leaves optimize_svm. *)
DrawBatch ==
    /\ frame.pc = "loop"
    /\ LoopContinues(frame.it, frame.iters)
    /\ IF SamplingRaises(batch_sampler, TRUE, 0)
       THEN /\ frame' = [frame EXCEPT !.pc = "raised"]
            /\ rng' = rng
       ELSE /\ frame' = [frame EXCEPT
                   !.pc = "grad",
                   !.draws = @ + 1,
                   !.X_batch = Take(batch_sampler.data,
                                    SampledIndices(batch_sampler, rng, TRUE, 0)),
                   !.y_batch = Take(batch_sampler.targets,
                                    SampledIndices(batch_sampler, rng, TRUE, 0))]
            /\ rng' = Advance(rng)
    /\ UNCHANGED <<optimizer, svm, batch_sampler, call, grads>>

(* Line 167, the argument svm.grad(X_batch, y_batch); a ZeroDivisionError
   (an empty batch) leaves optimize_svm. *)
ComputeGrad ==
    /\ frame.pc = "grad"
    /\ IF GradRaises(svm, frame.X_batch)
       THEN frame' = [frame EXCEPT !.pc = "raised"]
       ELSE frame' = [frame EXCEPT
                !.pc = "update",
                !.grad_calls = @ + 1,
                !.gradient = <<grad(svm, frame.X_batch, frame.y_batch)>>]
    /\ UNCHANGED <<optimizer, svm, batch_sampler, rng, call, grads>>

(* Line 167, the call optimizer.update_params(svm.w, <the gradient>) *)
Update ==
    /\ frame.pc = "update"
    /\ optimizer' = [optimizer EXCEPT
                        !.vel = NewVel(optimizer, frame.gradient[1])]
    /\ frame' = [frame EXCEPT
           !.pc = "assign",
           !.updates = @ + 1,
           !.updated = <<UpdatedParams(optimizer, svm.w, frame.gradient[1])>>]
    /\ UNCHANGED <<svm, batch_sampler, rng, call, grads>>

(* Line 167, the assignment svm.w = <the returned parameters>, which ends
   the iteration. *)
Assign ==
    /\ frame.pc = "assign"
    /\ svm' = [svm EXCEPT !.w = frame.updated[1]]
    /\ frame' = [frame EXCEPT !.pc = "loop", !.assigns = @ + 1, !.it = @ + 1]
    /\ UNCHANGED <<optimizer, batch_sampler, rng, call, grads>>

(* Line 168: return svm *)
Return ==
    /\ frame.pc = "loop"
    /\ ~LoopContinues(frame.it, frame.iters)
    /\ frame' = [frame EXCEPT !.pc = "done"]
    /\ UNCHANGED <<optimizer, svm, batch_sampler, rng, call, grads>>

(* A second run on the same arguments: the random source is seeded as
   before the first run, the optimizer is constructed anew with the same
   lr and beta, and the first run's weights are kept for comparison. *)
RunAgain ==
    /\ frame.pc = "done"
    /\ frame.run = 1
    /\ rng' = Seed(rng)
    /\ optimizer' = GDOptimizerInit(optimizer.lr, optimizer.beta)
    /\ frame' = NewFrame([data |-> frame.train_data,
                          targets |-> frame.train_targets],
                         frame.penalty, frame.batchsize, frame.iters,
                         2, <<svm.w>>)
    /\ svm' = Unbound.svm
    /\ batch_sampler' = Unbound.batch_sampler
    /\ UNCHANGED <<call, grads>>

NextTrain ==
    \/ Construct
    \/ DrawBatch
    \/ ComputeGrad
    \/ Update
    \/ Assign
    \/ Return
    \/ RunAgain

SpecTrain == InitTrain /\ [][NextTrain]_vars

(* Every statement of optimize_svm runs to completion: the program is
   sequential and nothing suspends it. *)
SpecTrainFair == SpecTrain /\ WF_vars(NextTrain)

---------------------------------------------------------------------------
(* Claims about optimize_svm. *)

NumTrainPoints == Len(frame.train_data)

(* The batch size exceeds the dataset and at least one iteration is asked
   for. *)
Oversized == frame.batchsize > NumTrainPoints /\ frame.iters >= 1

OversizedInv ==
    Oversized =>
        /\ frame.pc \in {"start", "loop", "raised"}
        /\ frame.it = 0
        /\ frame.draws = 0 /\ frame.grad_calls = 0
        /\ frame.updates = 0 /\ frame.assigns = 0
        /\ optimizer.vel = Scalar(Zero)
        /\ frame.pc # "start" => svm.w = frame.w0[1]

(* C8, checked under SpecTrain: when the batch size exceeds the dataset
   size and iters >= 1, the draw of the first iteration fails and leaves
   optimize_svm at once; the weights are the initial ones, the velocity is
   the initial one, and optimize_svm never returns. *)
C8_OversizedBatchFails ==
    /\ []OversizedInv
    /\ [][(Oversized /\ frame.pc = "loop") => frame'.pc = "raised"]_vars

(* The failed draw, with a nonzero initial weight vector. *)
C8_Witness ==
    /\ Oversized
    /\ frame.pc = "raised"
    /\ svm.w # Vector(<<Zero, Zero>>)

(* C9 as stated: for any iters >= 0 and batchsize <= N optimize_svm
   returns, so it is never left by an exception. *)
C9_AsStated ==
    frame.batchsize <= NumTrainPoints => frame.pc # "raised"

ValidBatch == frame.batchsize >= 1 /\ frame.batchsize <= NumTrainPoints

LoopInv ==
    ValidBatch =>
        /\ frame.pc # "raised"
        /\ frame.it <= frame.iters
        /\ frame.pc \in {"loop", "done"} =>
               /\ frame.draws = frame.it /\ frame.grad_calls = frame.it
               /\ frame.updates = frame.it /\ frame.assigns = frame.it
        /\ frame.pc = "grad" =>
               /\ frame.draws = frame.it + 1 /\ frame.grad_calls = frame.it
               /\ frame.updates = frame.it /\ frame.assigns = frame.it
               /\ Len(frame.X_batch) = frame.batchsize
               /\ Len(frame.y_batch) = frame.batchsize
        /\ frame.pc = "update" =>
               /\ frame.draws = frame.it + 1 /\ frame.grad_calls = frame.it + 1
               /\ frame.updates = frame.it /\ frame.assigns = frame.it
               /\ frame.gradient[1] = grad(svm, frame.X_batch, frame.y_batch)
        /\ frame.pc = "assign" =>
               /\ frame.draws = frame.it + 1 /\ frame.grad_calls = frame.it + 1
               /\ frame.updates = frame.it + 1 /\ frame.assigns = frame.it
               /\ frame.updated[1] = ArrSub(svm.w, optimizer.vel)
        /\ frame.pc = "done" => frame.it = frame.iters
        /\ (frame.pc = "done" /\ frame.iters = 0) => svm.w = frame.w0[1]

(* C9, amended, checked under SpecTrainFair: for any iters >= 0 and
   1 <= batchsize <= N optimize_svm terminates and returns after exactly
   iters iterations; each iteration makes one draw, then one gradient
   computation on that batch with the current weights, then one
   update_params call, then one replacement of svm.w by the returned value;
   with iters = 0 the returned weights are the initial ones. *)
C9_TrainingLoop ==
    /\ []LoopInv
    /\ [][(ValidBatch /\ frame.pc = "assign") => svm'.w = frame.updated[1]]_vars
    /\ (ValidBatch /\ frame.pc = "start") ~> (frame.pc = "done")

(* A run of two iterations that returned weights other than the initial
   ones. *)
C9_Witness ==
    /\ ValidBatch
    /\ frame.pc = "done"
    /\ frame.iters = 2
    /\ frame.assigns = 2
    /\ svm.w # frame.w0[1]

(* C10, checked under SpecTrain: a second run on the same data and
   hyperparameters, with an optimizer of the same lr and beta and the
   random source seeded as for the first run, returns the weights the
   first run returned. *)
C10_Deterministic ==
    (frame.pc = "done" /\ frame.run = 2) => svm.w = frame.first[1]

(* A second run of two iterations, over a stream whose words differ, that
   returned trained weights. *)
C10_Witness ==
    /\ frame.pc = "done"
    /\ frame.run = 2
    /\ frame.iters = 2
    /\ frame.batchsize >= 1
    /\ rng.tape[1] # rng.tape[2]
    /\ svm.w # frame.w0[1]
    /\ svm.w = frame.first[1]

=============================================================================
